---- MODULE Spec2Model ----
(***************************************************************************)
(* Model of singlejson.fileutils.JSONFile: one JSON document bound to one  *)
(* file, with reload / default recovery / save.                            *)
(*                                                                         *)
(* Python values are modelled structurally: None, a dict (an insertion-     *)
(* ordered sequence of <<key, string>> items) and a value holding a set,   *)
(* which json.dumps rejects.  File contents are texts produced by dumps    *)
(* (they carry indentation, member order and \uXXXX escapes), the literal  *)
(* text "{}", or text that is not JSON.  json.load rebuilds a value from a *)
(* text, so dumps followed by load is a computed round trip.               *)
(***************************************************************************)
EXTENDS Integers, Sequences, FiniteSets, TLC

\* Largest number of members of a dict value.
MaxItems == 2

\* Dict keys: key k stands for a one-letter key; keys sort by k.
Keys == {1, 2}

\* The one-character string stored under a key, by code point:
\* "e-acute" (not ASCII) under key 1, "a" under key 2.
CharOf(k) == IF k = 1 THEN 233 ELSE 97

----------------------------------------------------------------------------
(* Python values *)

None == [kind |-> "null", items |-> <<>>]

Dict(items) == [kind |-> "object", items |-> items]

\* A value such as {"x": set([1])}: json.dumps raises TypeError on it.
NotSerializable == [kind |-> "set", items |-> <<>>]

\* Placeholder for the attribute `json` while __init__ has not assigned it.
Unset == [kind |-> "unset", items |-> <<>>]

ItemSeqs ==
    UNION { { [i \in 1..n |-> <<ks[i], CharOf(ks[i])>>] :
                ks \in { q \in [1..n -> Keys] :
                            \A i, j \in 1..n : i # j => q[i] # q[j] } } :
            n \in 0..MaxItems }

JSONSerializable == {None} \cup { Dict(s) : s \in ItemSeqs }

PyValues == JSONSerializable \cup {NotSerializable}

\* Python == on the modelled values: dicts compare as sets of items,
\* whatever their insertion order.
PyEq(v, w) ==
    /\ v.kind = w.kind
    /\ { v.items[i] : i \in 1..Len(v.items) } = { w.items[i] : i \in 1..Len(w.items) }

----------------------------------------------------------------------------
(* Serialization settings *)

JsonSerializationSettings(indent, sort_keys, ensure_ascii, encoding) ==
    [indent |-> indent, sort_keys |-> sort_keys,
     ensure_ascii |-> ensure_ascii, encoding |-> encoding]

DEFAULT_SERIALIZATION_SETTINGS == JsonSerializationSettings(4, TRUE, FALSE, "utf-8")

\* Settings a JSONFile is constructed with (None stands for the default).
InstanceSettings ==
    { DEFAULT_SERIALIZATION_SETTINGS,
      JsonSerializationSettings(2, FALSE, TRUE, "utf-8") }

----------------------------------------------------------------------------
(* json.dumps / json.load *)

SortByKey(items) ==
    LET ks == { items[i][1] : i \in 1..Len(items) }
        rank(k) == Cardinality({ x \in ks : x < k }) + 1
        at(n) == CHOOSE i \in 1..Len(items) : rank(items[i][1]) = n
    IN  [ n \in 1..Len(items) |-> items[at(n)] ]

\* Variant: ensure_ascii replaces a non-ASCII character by "?".
Token_replacing(c, ensure_ascii) ==
    [cp |-> IF ensure_ascii /\ c > 127 THEN 63 ELSE c, escaped |-> FALSE]

\* A string in the text: the character, written as a \uXXXX escape or raw.
Token(c, ensure_ascii) == [cp |-> c, escaped |-> (ensure_ascii /\ c > 127)]

CanDump(v) == v.kind \in {"null", "object"}

\* json.dumps(v, indent=, sort_keys=, ensure_ascii=) for a serializable v.
\* An empty dict is "{}" and None is "null" whatever the indentation.
dumps(v, settings) ==
    LET ordered == IF settings.sort_keys THEN SortByKey(v.items) ELSE v.items
    IN  [ kind    |-> v.kind,
          indent  |-> IF Len(v.items) = 0 THEN 0 ELSE settings.indent,
          members |-> [ i \in 1..Len(ordered) |->
                          <<ordered[i][1], Token(ordered[i][2], settings.ensure_ascii)>> ] ]

\* The literal text "{}" the recovery code writes.
EmptyObjectText == [kind |-> "object", indent |-> 0, members |-> <<>>]

\* Text such as "{ invalid json".
InvalidText == [kind |-> "invalid", indent |-> 0, members |-> <<>>]

IsJSONText(text) == text.kind \in {"null", "object"}

\* json.load on a JSON text: members in text order, escapes decoded.
json_load(text) ==
    [ kind  |-> text.kind,
      items |-> [ i \in 1..Len(text.members) |->
                    <<text.members[i][1], text.members[i][2].cp>> ] ]

----------------------------------------------------------------------------
(* Files *)

NoFile == [exists |-> FALSE, encoding |-> "", text |-> InvalidText]

FileOf(text, encoding) == [exists |-> TRUE, encoding |-> encoding, text |-> text]

\* _atomic_write_text: the target becomes exactly `text` in `encoding`.
AtomicWriteText(text, encoding) == FileOf(text, encoding)

\* _atomic_copy_file: the target becomes a byte copy of the source.
AtomicCopyFile(src) == src

ValidFile(f) == f.exists /\ IsJSONText(f.text)

----------------------------------------------------------------------------
(* State *)

VARIABLES
    file,          \* the file at self.__path
    default_file,  \* the file at default_path (a template kept by the caller)
    alive,         \* TRUE while a constructed JSONFile is held by the caller
    doc,           \* the JSONFile's fields set by __init__
    json,          \* self.json
    ctor,          \* what the held JSONFile was built with
    external,      \* something other than the JSONFile changed `file` since __init__
    caller_default, \* the object the caller passed as default_data
    last           \* the last call: its arguments, its outcome, the state before it

\* The filesystem seen by processes that share no lock: inodes, the
\* directory entry of the target, two writers and a reader.
VARIABLES
    fs_inode,      \* content of each inode: the blocks written so far
    fs_target,     \* the inode the target path names
    w_pc,          \* each writer's position in its atomic write
    w_fd,          \* the inode each writer has open for writing
    w_n,           \* how many blocks each writer has written
    r_pc,          \* the reader's position
    r_fd,          \* the inode the reader has open
    r_buf          \* the blocks the reader has read

\* Threads calling reload and save on one JSONFile.
VARIABLES
    lock,          \* self._lock: owning thread and recursion level
    t_pc,          \* each thread's position
    t_op,          \* the method each thread is calling
    t_left         \* how many calls each thread still makes

\* One caller of _atomic_copy_file, step by step.
VARIABLES
    cp_pc,         \* position in the call
    cp_src,        \* the text of the source file
    cp_fault,      \* the step of this call that fails: copyfile, replace or none
    cp_rm_fails,   \* whether os.remove of the temporary file fails in this call
    cp_dest,       \* the destination file
    cp_prev,       \* the destination file as the call found it
    cp_tmp,        \* the temporary file of this call
    cp_err         \* the exception the call raised

docvars == <<file, default_file, alive, doc, json, ctor, external, caller_default, last>>

fsvars == <<fs_inode, fs_target, w_pc, w_fd, w_n, r_pc, r_fd, r_buf>>

thvars == <<lock, t_pc, t_op, t_left>>

cpvars == <<cp_pc, cp_src, cp_fault, cp_rm_fails, cp_dest, cp_prev, cp_tmp, cp_err>>

vars == <<docvars, fsvars, thvars, cpvars>>

\* Exceptions, by class name; "none" is a normal return.
DefaultNotJSONSerializableError == "DefaultNotJSONSerializableError"
JSONDeserializationError == "JSONDeserializationError"
FileAccessError == "FileAccessError"
TypeError == "TypeError"
\* A PermissionError / OSError that reaches the caller unwrapped.
OSError == "OSError"

\* The filesystem operation that fails with an OSError during a call:
\*   read        open/read of the target in reload (first attempt)
\*   retry_read  open/read of the target in reload's retry
\*   write       writing the temporary file in _atomic_write_text
\*   replace     os.replace in _atomic_write_text, after the temporary file
\*               was written
\*   copy_tmp    creating the temporary file in _atomic_copy_file
\*   copy        shutil.copyfile / os.replace in _atomic_copy_file
Faults == {"none", "read", "retry_read", "write", "replace", "copy_tmp", "copy"}

\* save touches the filesystem through _atomic_write_text only.
SaveFaults == {"none", "write", "replace"}

JSONFile(default_data, default_path, settings, auto_save) ==
    [ default_data |-> default_data, default_path |-> default_path,
      settings |-> settings, auto_save |-> auto_save ]

\* Class-level attribute values, before __init__ has run.
NoDoc == JSONFile(None, FALSE, DEFAULT_SERIALIZATION_SETTINGS, TRUE)

----------------------------------------------------------------------------
(* _atomic_write_text / _atomic_copy_file *)

Materialized(f, err) == [file |-> f, err |-> err]

\* Variant: the text is written straight into the target, so a failure
\* while writing leaves a partial text there.
atomic_write_text_in_place(f, text, encoding, io) ==
    IF io = "write"
    THEN Materialized(FileOf(InvalidText, encoding), FileAccessError)
    ELSE Materialized(AtomicWriteText(text, encoding), "none")

\* The target changes only by os.replace; any exception before or in it is
\* re-raised as FileAccessError.
atomic_write_text(f, text, encoding, io) ==
    IF io \in {"write", "replace"}
    THEN Materialized(f, FileAccessError)
    ELSE Materialized(AtomicWriteText(text, encoding), "none")

\* mkdir and the creation of the temporary file are outside the try block.
atomic_copy_file(f, src, io) ==
    IF io = "copy_tmp"
    THEN Materialized(f, OSError)
    ELSE IF io = "copy"
         THEN Materialized(f, FileAccessError)
         ELSE Materialized(AtomicCopyFile(src), "none")

----------------------------------------------------------------------------
(* JSONFile.__reinstantiate_default *)

\* Variant: recover=False raises before the default is looked at.
reinstantiate_default_raising(self, f, df, recover, io) ==
    IF ~recover
    THEN Materialized(f, DefaultNotJSONSerializableError)
    ELSE IF self.default_path
         THEN IF df.exists
              THEN atomic_copy_file(f, df, io)
              ELSE atomic_write_text(f, EmptyObjectText, self.settings.encoding, io)
         ELSE IF CanDump(self.default_data)
              THEN atomic_write_text(f, dumps(self.default_data, self.settings),
                                     self.settings.encoding, io)
              ELSE atomic_write_text(f, EmptyObjectText, self.settings.encoding, io)

\* Variant: the recover flag is ignored and "{}" is written whenever the
\* default is unusable.
reinstantiate_default_lenient(self, f, df, recover, io) ==
    IF self.default_path
    THEN IF df.exists
         THEN atomic_copy_file(f, df, io)
         ELSE atomic_write_text(f, EmptyObjectText, self.settings.encoding, io)
    ELSE IF CanDump(self.default_data)
         THEN atomic_write_text(f, dumps(self.default_data, self.settings),
                                self.settings.encoding, io)
         ELSE atomic_write_text(f, EmptyObjectText, self.settings.encoding, io)

reinstantiate_default(self, f, df, recover, io) ==
    IF self.default_path
    THEN IF df.exists
         THEN atomic_copy_file(f, df, io)
         ELSE IF ~recover
              THEN Materialized(f, DefaultNotJSONSerializableError)
              ELSE atomic_write_text(f, EmptyObjectText, self.settings.encoding, io)
    ELSE IF CanDump(self.default_data)
         THEN atomic_write_text(f, dumps(self.default_data, self.settings),
                                self.settings.encoding, io)
         ELSE IF ~recover
              THEN Materialized(f, DefaultNotJSONSerializableError)
              ELSE atomic_write_text(f, EmptyObjectText, self.settings.encoding, io)

----------------------------------------------------------------------------
(* JSONFile.reload *)

\* What a call leaves behind: the file, self.json, the exception raised,
\* how often the file was parsed, how often the default was materialized.
Outcome(f, j, err, parses, reinst) ==
    [file |-> f, json |-> j, err |-> err, parses |-> parses, reinst |-> reinst]

\* Variant: a parse fault is always reported as JSONDeserializationError.
ParseFault_target_only(self) == JSONDeserializationError

\* The error of a parse fault when recovery is not allowed.
ParseFault(self) ==
    IF self.default_path THEN DefaultNotJSONSerializableError
                         ELSE JSONDeserializationError

\* The final fallback: write "{}", then self.json = {}.
reload_fallback(self, f, j, n, io) ==
    LET w == atomic_write_text(f, EmptyObjectText, self.settings.encoding, io)
    IN  IF w.err # "none"
        THEN Outcome(w.file, j, w.err, 2, n)
        ELSE Outcome(w.file, Dict(<<>>), "none", 2, n)

\* Variant: the final fallback sets self.json = {} without writing the file.
reload_retry_no_write(self, f, df, j, recover, n, io) ==
    LET m == reinstantiate_default(self, f, df, recover, io)
    IN  IF m.err # "none"
        THEN Outcome(m.file, j, m.err, 1, n + 1)
        ELSE IF io = "retry_read"
        THEN Outcome(m.file, j, OSError, 1, n + 1)
        ELSE IF IsJSONText(m.file.text)
             THEN Outcome(m.file, json_load(m.file.text), "none", 2, n + 1)
             ELSE Outcome(m.file, Dict(<<>>), "none", 2, n + 1)

\* Variant: a failed retry materializes and parses once more before the
\* fallback.
reload_retry_again(self, f, df, j, recover, n, io) ==
    LET m == reinstantiate_default(self, f, df, recover, io)
        m2 == reinstantiate_default(self, m.file, df, recover, io)
    IN  IF m.err # "none"
        THEN Outcome(m.file, j, m.err, 1, n + 1)
        ELSE IF io = "retry_read"
        THEN Outcome(m.file, j, OSError, 1, n + 1)
        ELSE IF IsJSONText(m.file.text)
             THEN Outcome(m.file, json_load(m.file.text), "none", 2, n + 1)
             ELSE IF m2.err = "none" /\ IsJSONText(m2.file.text)
                  THEN Outcome(m2.file, json_load(m2.file.text), "none", 3, n + 2)
                  ELSE Outcome(AtomicWriteText(EmptyObjectText, self.settings.encoding),
                               Dict(<<>>), "none", 3, n + 2)

\* Variant: when the retry fails too, the parse fault is raised.
reload_retry_raising(self, f, df, j, recover, n, io) ==
    LET m == reinstantiate_default(self, f, df, recover, io)
    IN  IF m.err # "none"
        THEN Outcome(m.file, j, m.err, 1, n + 1)
        ELSE IF io = "retry_read"
        THEN Outcome(m.file, j, OSError, 1, n + 1)
        ELSE IF IsJSONText(m.file.text)
             THEN Outcome(m.file, json_load(m.file.text), "none", 2, n + 1)
             ELSE Outcome(m.file, j, ParseFault(self), 2, n + 1)

\* The single retry after a parse fault (recover is known to be allowed).
\* The retry's try block catches json.JSONDecodeError only: an OSError of
\* the second open/read is not wrapped.
reload_retry(self, f, df, j, recover, n, io) ==
    LET m == reinstantiate_default(self, f, df, recover, io)
    IN  IF m.err # "none"
        THEN Outcome(m.file, j, m.err, 1, n + 1)
        ELSE IF io = "retry_read"
        THEN Outcome(m.file, j, OSError, 1, n + 1)
        ELSE IF IsJSONText(m.file.text)
             THEN Outcome(m.file, json_load(m.file.text), "none", 2, n + 1)
             ELSE IF ~recover
                  THEN Outcome(m.file, j, ParseFault(self), 2, n + 1)
                  ELSE reload_fallback(self, m.file, j, n + 1, io)

\* Variant: a parse fault with recover=True goes straight to the empty
\* object, without materializing the default.
reload_without_default(self, f, df, j, recover, io) ==
    LET m == IF ~f.exists THEN reinstantiate_default(self, f, df, recover, io)
                          ELSE Materialized(f, "none")
        n == IF ~f.exists THEN 1 ELSE 0
    IN  IF m.err # "none"
        THEN Outcome(m.file, j, m.err, 0, n)
        ELSE IF io = "read"
        THEN Outcome(m.file, j, FileAccessError, 0, n)
        ELSE IF IsJSONText(m.file.text)
             THEN Outcome(m.file, json_load(m.file.text), "none", 1, n)
             ELSE IF ~recover
                  THEN Outcome(m.file, j, ParseFault(self), 1, n)
                  ELSE Outcome(AtomicWriteText(EmptyObjectText, self.settings.encoding),
                               Dict(<<>>), "none", 1, n)

\* Variant: the default is materialized before every load, so a reload
\* resets the file.
reload_resetting(self, f, df, j, recover, io) ==
    LET m == reinstantiate_default(self, f, df, recover, io)
    IN  IF m.err # "none"
        THEN Outcome(m.file, j, m.err, 0, 1)
        ELSE IF io = "read"
        THEN Outcome(m.file, j, FileAccessError, 0, 1)
        ELSE IF IsJSONText(m.file.text)
             THEN Outcome(m.file, json_load(m.file.text), "none", 1, 1)
             ELSE IF ~recover
                  THEN Outcome(m.file, j, ParseFault(self), 1, 1)
                  ELSE reload_retry(self, m.file, df, j, recover, 1, io)

reload(self, f, df, j, recover, io) ==
    LET m == IF ~f.exists THEN reinstantiate_default(self, f, df, recover, io)
                          ELSE Materialized(f, "none")
        n == IF ~f.exists THEN 1 ELSE 0
    IN  IF m.err # "none"
        THEN Outcome(m.file, j, m.err, 0, n)
        ELSE IF io = "read"
        THEN Outcome(m.file, j, FileAccessError, 0, n)
        ELSE IF IsJSONText(m.file.text)
             THEN Outcome(m.file, json_load(m.file.text), "none", 1, n)
             ELSE IF ~recover
                  THEN Outcome(m.file, j, ParseFault(self), 1, n)
                  ELSE reload_retry(self, m.file, df, j, recover, n, io)

----------------------------------------------------------------------------
(* JSONFile.save *)

\* Variant: the file is opened for writing in place, so a value json.dumps
\* rejects leaves a truncated file.
save_in_place(self, f, j, settings, io) ==
    IF CanDump(j)
    THEN LET w == atomic_write_text(f, dumps(j, settings), self.settings.encoding, io)
         IN  Outcome(w.file, j, w.err, 0, 0)
    ELSE Outcome(FileOf(InvalidText, self.settings.encoding), j, TypeError, 0, 0)

\* Variant: a value that is still None (nothing loaded) is not written.
save_if_loaded(self, f, j, settings, io) ==
    IF j = None
    THEN Outcome(f, j, "none", 0, 0)
    ELSE IF CanDump(j)
         THEN LET w == atomic_write_text(f, dumps(j, settings),
                                         self.settings.encoding, io)
              IN  Outcome(w.file, j, w.err, 0, 0)
         ELSE Outcome(f, j, TypeError, 0, 0)

\* dumps runs before the write; a TypeError of dumps is not caught.
save(self, f, j, settings, io) ==
    IF CanDump(j)
    THEN LET w == atomic_write_text(f, dumps(j, settings), self.settings.encoding, io)
         IN  Outcome(w.file, j, w.err, 0, 0)
    ELSE Outcome(f, j, TypeError, 0, 0)

----------------------------------------------------------------------------
(* JSONFile.__enter__ / JSONFile.__exit__ *)

\* An exception raised by the body of a with block.
RuntimeError == "RuntimeError"

\* What may be in flight when the with block is left.
BodyOutcomes == {"none", RuntimeError}

\* Variant: the exit saves whenever auto_save is set.
exit_saves_always(self, exc_type) == self.auto_save

\* The condition under which __exit__ calls save().
exit_saves(self, exc_type) == exc_type = "none" /\ self.auto_save

\* __exit__(exc_type, exc, tb): save() with the instance settings, or
\* nothing; the return value is None, which never suppresses.
exit(self, f, j, exc_type, io) ==
    IF exit_saves(self, exc_type)
    THEN LET s == save(self, f, j, self.settings, io)
         IN  [file |-> s.file, json |-> s.json, err |-> s.err, parses |-> 0,
              reinst |-> 0, saves |-> 1, suppress |-> FALSE]
    ELSE [file |-> f, json |-> j, err |-> "none", parses |-> 0,
          reinst |-> 0, saves |-> 0, suppress |-> FALSE]

\* The exception the with statement leaves to the caller: one raised by
\* __exit__ itself, else the one in flight unless __exit__ suppressed it.
with_raises(exc_type, out) ==
    IF out.err # "none" THEN out.err
    ELSE IF out.suppress THEN "none" ELSE exc_type

----------------------------------------------------------------------------
(* JSONFile.__init__ *)

\* The recover flag __init__ passes to its initial reload.
InitRecover(strict) == strict

\* Variant: a strict construction checks only that the default file exists.
init_default_error_exists_only(default_data, default_path, df, strict) ==
    IF default_path
    THEN IF strict /\ ~df.exists THEN DefaultNotJSONSerializableError ELSE "none"
    ELSE IF strict /\ ~CanDump(default_data) THEN DefaultNotJSONSerializableError
         ELSE "none"

\* The eager check of the default material made when strict is set.
init_default_error(default_data, default_path, df, strict) ==
    IF default_path
    THEN IF strict
         THEN IF df.exists
              THEN IF IsJSONText(df.text) THEN "none"
                   ELSE DefaultNotJSONSerializableError
              ELSE DefaultNotJSONSerializableError
         ELSE "none"
    ELSE IF strict
         THEN IF CanDump(default_data) THEN "none"
              ELSE DefaultNotJSONSerializableError
         ELSE "none"

\* Variant: the caller's object itself is kept.
deepcopy_alias(v) == [value |-> v, same_object |-> TRUE]

\* copy.deepcopy: an equal value in a new object, sharing nothing with v.
deepcopy(v) == [value |-> v, same_object |-> FALSE]

\* Variant: a default_data that was given is kept and the path is dropped.
init_fields_data_first(default_data, default_path, settings, auto_save) ==
    JSONFile(default_data, default_path /\ default_data = None, settings, auto_save)

\* The fields __init__ sets: a default_path overrides default_data, which
\* then keeps its class-level value None.
init_fields(default_data, default_path, settings, auto_save) ==
    JSONFile(IF default_path THEN None ELSE deepcopy(default_data).value,
             default_path, settings, auto_save)

\* The caller's default object after __init__: its value, and whether the
\* JSONFile holds this very object as its default.
CallerDefault(default_data, default_path) ==
    [ value |-> default_data,
      held |-> ~default_path /\ deepcopy(default_data).same_object ]

\* An in-place change of a dict by its owner: clear() when it has members,
\* d["a"] = "a" when it is empty.
Mutated(v) ==
    IF Len(v.items) > 0 THEN Dict(<<>>) ELSE Dict(<<<<2, CharOf(2)>>>>)

init(default_data, default_path, settings, auto_save, strict, load_file, f, df, io) ==
    LET e == init_default_error(default_data, default_path, df, strict)
        self == init_fields(default_data, default_path, settings, auto_save)
    IN  IF e # "none"
        THEN Outcome(f, Unset, e, 0, 0)
        ELSE IF load_file
             THEN reload(self, f, df, Unset, InitRecover(strict), io)
             ELSE Outcome(f, None, "none", 0, 0)

----------------------------------------------------------------------------
(* The caller's and the environment's steps *)

\* Files found on disk before any JSONFile is constructed.
InvalidFile == FileOf(InvalidText, "utf-8")

TemplateFile ==
    FileOf(dumps(Dict(<<<<2, 97>>, <<1, 233>>>>),
                 JsonSerializationSettings(0, FALSE, TRUE, "utf-8")), "utf-8")

ExistingFile == FileOf(dumps(Dict(<<<<2, 97>>>>), DEFAULT_SERIALIZATION_SETTINGS), "utf-8")

\* Settings passed to save(); the instance settings stand for settings=None.
SaveSettings(self) ==
    {self.settings, JsonSerializationSettings(2, TRUE, TRUE, "utf-16")}

FileKind(f) ==
    IF ~f.exists THEN "missing" ELSE IF IsJSONText(f.text) THEN "valid" ELSE "invalid"

\* The default material of a JSONFile, as the call finds it.
DefaultKind(default_data, default_path, df) ==
    IF default_path
    THEN IF ~df.exists THEN "path_missing"
         ELSE IF IsJSONText(df.text) THEN "path_valid" ELSE "path_invalid"
    ELSE IF CanDump(default_data) THEN "data" ELSE "data_unserializable"

\* Record of a call: op and arguments, the result, the target file the call
\* found, and whether it left the file and self.json as they were.  io is
\* the fault that occurred in the call ("none" when no operation failed);
\* json_eq is Python's == between self.json before and after the call;
\* after_save tells that the call before this one was a save that returned;
\* saves and exc are set for the exit of a with block: the number of save()
\* calls made and the exception that was in flight; as_given is set for a
\* save: whether the file it left is the dump of self.json under the
\* settings passed, in the encoding of the settings passed.
Call(op, args, out, f, j) ==
    [ op |-> op, strict |-> args.strict, load_file |-> args.load_file,
      recover |-> args.recover, default |-> args.default,
      io |-> IF out.err \in {FileAccessError, OSError} THEN args.io ELSE "none",
      err |-> out.err, parses |-> out.parses, reinst |-> out.reinst,
      pre |-> FileKind(f), file_kept |-> (out.file = f), json_kept |-> (out.json = j),
      json_eq |-> PyEq(out.json, j), after_save |-> FALSE,
      saves |-> 0, exc |-> "none", as_given |-> TRUE ]

\* The record of a call that follows the call recorded in prev.
After(prev, call) ==
    [call EXCEPT !.after_save = (prev.op = "save" /\ prev.err = "none")]

Args(default, strict, load_file, recover) ==
    [ default |-> default, strict |-> strict, load_file |-> load_file,
      recover |-> recover, io |-> "none" ]

\* The same arguments, with the fault the environment injects in the call.
WithFault(args, io) == [args EXCEPT !.io = io]

NoArgs == Args("data", FALSE, FALSE, FALSE)

\* What is remembered of the construction of the held JSONFile: load_file,
\* and the value of its default data when __init__ returned.
Built(load_file, given) == [load_file |-> load_file, given |-> given]

\* Default values passed to JSONFile(): None (the parameter's default), a
\* dict, a value json.dumps rejects.
DefaultPool == { v \in PyValues : Len(v.items) \in {0, MaxItems} }

\* Values the caller assigns to jf.json.
EditPool == { v \in PyValues : Len(v.items) \in {0, MaxItems} }

----------------------------------------------------------------------------
(* The target path under writers and a reader that share no lock *)

\* Number of blocks a text is written in, and read in.
NBlocks == 2

\* Two processes (or two JSONFile objects on the same path), each making
\* one atomic write of its own text.
Writers == {"w1", "w2"}

\* The content the target holds at the start.
OldText == "old"

Texts == {OldText} \cup Writers

\* A text as the sequence of its blocks.
FullText(t) == [i \in 1..NBlocks |-> <<t, i>>]

\* No inode: the path does not exist, the descriptor is closed.
Absent == "absent"

\* The inode the target names at the start.
OldInode == "old"

\* Inodes: the original file and one temporary file per writer.
Inodes == {OldInode} \cup Writers

\* Variant: the writer opens the target itself for writing (truncating it)
\* when it exists.
open_target_for_writing(w, target) == IF target = Absent THEN w ELSE target

\* NamedTemporaryFile(dir=path.parent, delete=False): a new file of its own,
\* whatever the target is.
NamedTemporaryFile(w, target) == w

FSInit(target) ==
    /\ fs_inode = [i \in Inodes |-> IF i = OldInode THEN FullText(OldText) ELSE <<>>]
    /\ fs_target = target
    /\ w_pc = [w \in Writers |-> "idle"]
    /\ w_fd = [w \in Writers |-> Absent]
    /\ w_n = [w \in Writers |-> 0]
    /\ r_pc = "idle"
    /\ r_fd = Absent
    /\ r_buf = <<>>

\* The writer creates its temporary file, empty.
WriterCreateTemp(w) ==
    /\ w_pc[w] = "idle"
    /\ LET fd == NamedTemporaryFile(w, fs_target)
       IN  /\ fs_inode' = [fs_inode EXCEPT ![fd] = <<>>]
           /\ w_fd' = [w_fd EXCEPT ![w] = fd]
    /\ w_pc' = [w_pc EXCEPT ![w] = "writing"]
    /\ UNCHANGED <<fs_target, w_n, r_pc, r_fd, r_buf>>
    /\ UNCHANGED <<docvars, thvars, cpvars>>

\* tf.write / shutil.copyfile: one more block reaches the open file; the
\* file is closed after the last one.
WriterWrite(w) ==
    /\ w_pc[w] = "writing"
    /\ w_n[w] < NBlocks
    /\ fs_inode' = [fs_inode EXCEPT ![w_fd[w]] = Append(@, <<w, w_n[w] + 1>>)]
    /\ w_n' = [w_n EXCEPT ![w] = @ + 1]
    /\ w_pc' = [w_pc EXCEPT ![w] = IF w_n[w] + 1 = NBlocks THEN "closed" ELSE "writing"]
    /\ UNCHANGED <<fs_target, w_fd, r_pc, r_fd, r_buf>>
    /\ UNCHANGED <<docvars, thvars, cpvars>>

\* os.replace(temp_name, path): the path names the written file from now
\* on; files already open keep their inode.
WriterReplace(w) ==
    /\ w_pc[w] = "closed"
    /\ fs_target' = w_fd[w]
    /\ w_pc' = [w_pc EXCEPT ![w] = "done"]
    /\ UNCHANGED <<fs_inode, w_fd, w_n, r_pc, r_fd, r_buf>>
    /\ UNCHANGED <<docvars, thvars, cpvars>>

\* path.open("r") by the reader.
ReaderOpen ==
    /\ r_pc = "idle"
    /\ fs_target # Absent
    /\ r_fd' = fs_target
    /\ r_buf' = <<>>
    /\ r_pc' = "reading"
    /\ UNCHANGED <<fs_inode, fs_target, w_pc, w_fd, w_n>>
    /\ UNCHANGED <<docvars, thvars, cpvars>>

\* json_load(file): the next block of the open file, or end of file.
ReaderRead ==
    /\ r_pc = "reading"
    /\ IF Len(r_buf) < Len(fs_inode[r_fd])
       THEN /\ r_buf' = Append(r_buf, fs_inode[r_fd][Len(r_buf) + 1])
            /\ r_pc' = "reading"
       ELSE /\ r_buf' = r_buf
            /\ r_pc' = "eof"
    /\ UNCHANGED <<fs_inode, fs_target, w_pc, w_fd, w_n, r_fd>>
    /\ UNCHANGED <<docvars, thvars, cpvars>>

\* The reader closes the file and may read again later.
ReaderClose ==
    /\ r_pc = "eof"
    /\ r_pc' = "idle"
    /\ r_fd' = Absent
    /\ r_buf' = <<>>
    /\ UNCHANGED <<fs_inode, fs_target, w_pc, w_fd, w_n>>
    /\ UNCHANGED <<docvars, thvars, cpvars>>

----------------------------------------------------------------------------
(* Threads on one JSONFile: self._lock *)

\* Calls each thread makes.
MaxCalls == 2

Threads == {"t1", "t2"}

Methods == {"save", "reload"}

\* threading.RLock(): owner and recursion level.
RLock == [owner |-> "none", count |-> 0]

\* Variant: threading.Lock, which its owner cannot take again.
acquirable_once(l, t) == l.owner = "none"

\* Whether acquire() returns at once for thread t.
acquirable(l, t) == l.owner = "none" \/ l.owner = t

acquire(l, t) == [owner |-> t, count |-> l.count + 1]

release(l) == IF l.count = 1 THEN RLock ELSE [l EXCEPT !.count = @ - 1]

ThreadsInit ==
    /\ lock = RLock
    /\ t_pc = [t \in Threads |-> "idle"]
    /\ t_op = [t \in Threads |-> "none"]
    /\ t_left = [t \in Threads |-> MaxCalls]

\* Positions at which a thread is inside `with self._lock:` of reload, save
\* or __reinstantiate_default.
InBody == {"body", "enter_nested", "nested_body", "body_after", "leave"}

\* The thread calls jf.save() or jf.reload() and reaches `with self._lock`.
ThreadCall(t) ==
    /\ t_pc[t] = "idle"
    /\ t_left[t] > 0
    /\ \E m \in Methods : t_op' = [t_op EXCEPT ![t] = m]
    /\ t_left' = [t_left EXCEPT ![t] = @ - 1]
    /\ t_pc' = [t_pc EXCEPT ![t] = "enter"]
    /\ UNCHANGED lock
    /\ UNCHANGED <<docvars, fsvars, cpvars>>

\* `with self._lock:` of save / reload.
ThreadAcquire(t) ==
    /\ t_pc[t] = "enter"
    /\ acquirable(lock, t)
    /\ lock' = acquire(lock, t)
    /\ t_pc' = [t_pc EXCEPT ![t] = "body"]
    /\ UNCHANGED <<t_op, t_left>>
    /\ UNCHANGED <<docvars, fsvars, cpvars>>

\* The body: save writes the file; reload reads it and assigns self.json,
\* or first goes to __reinstantiate_default (file missing or not parsing).
ThreadBody(t) ==
    /\ t_pc[t] = "body"
    /\ \/ t_pc' = [t_pc EXCEPT ![t] = "leave"]
       \/ t_op[t] = "reload" /\ t_pc' = [t_pc EXCEPT ![t] = "enter_nested"]
    /\ UNCHANGED <<lock, t_op, t_left>>
    /\ UNCHANGED <<docvars, fsvars, cpvars>>

\* `with self._lock:` of __reinstantiate_default, called from reload.
ThreadAcquireNested(t) ==
    /\ t_pc[t] = "enter_nested"
    /\ acquirable(lock, t)
    /\ lock' = acquire(lock, t)
    /\ t_pc' = [t_pc EXCEPT ![t] = "nested_body"]
    /\ UNCHANGED <<t_op, t_left>>
    /\ UNCHANGED <<docvars, fsvars, cpvars>>

\* __reinstantiate_default wrote the default and returns.
ThreadReleaseNested(t) ==
    /\ t_pc[t] = "nested_body"
    /\ lock' = release(lock)
    /\ t_pc' = [t_pc EXCEPT ![t] = "body_after"]
    /\ UNCHANGED <<t_op, t_left>>
    /\ UNCHANGED <<docvars, fsvars, cpvars>>

\* reload reads the file after the default was written.
ThreadBodyAfter(t) ==
    /\ t_pc[t] = "body_after"
    /\ t_pc' = [t_pc EXCEPT ![t] = "leave"]
    /\ UNCHANGED <<lock, t_op, t_left>>
    /\ UNCHANGED <<docvars, fsvars, cpvars>>

\* An exception in the body: every `with self._lock:` it passes releases
\* once, and the call ends.
ThreadRaise(t) ==
    /\ t_pc[t] \in {"body", "nested_body", "body_after"}
    /\ lock' = IF t_pc[t] = "nested_body" THEN release(release(lock))
                                          ELSE release(lock)
    /\ t_pc' = [t_pc EXCEPT ![t] = "idle"]
    /\ t_op' = [t_op EXCEPT ![t] = "none"]
    /\ UNCHANGED t_left
    /\ UNCHANGED <<docvars, fsvars, cpvars>>

\* The end of the outer `with self._lock:`; the call returns.
ThreadRelease(t) ==
    /\ t_pc[t] = "leave"
    /\ lock' = release(lock)
    /\ t_pc' = [t_pc EXCEPT ![t] = "idle"]
    /\ t_op' = [t_op EXCEPT ![t] = "none"]
    /\ UNCHANGED t_left
    /\ UNCHANGED <<docvars, fsvars, cpvars>>

\* All the steps of one thread.
ThreadStep(t) ==
    \/ ThreadCall(t) \/ ThreadAcquire(t) \/ ThreadBody(t)
    \/ ThreadAcquireNested(t) \/ ThreadReleaseNested(t) \/ ThreadBodyAfter(t)
    \/ ThreadRaise(t) \/ ThreadRelease(t)

----------------------------------------------------------------------------
(* _atomic_copy_file, step by step *)

\* Texts a default file may hold.
Sources == {"default", "other"}

\* The steps inside the try block that may raise.
CopyFaults == {"none", "copyfile", "replace"}

\* A file of the destination directory: whether it exists, and its blocks.
Missing == [exists |-> FALSE, blocks |-> <<>>]

Holding(blocks) == [exists |-> TRUE, blocks |-> blocks]

\* Variant: the handler raises without removing the temporary file.
copy_cleanup_skipped(tmp, rm_fails) == [tmp |-> tmp, err |-> FileAccessError]

\* The except block: os.remove(temp_name) when it exists, then raise
\* FileAccessError; a failing os.remove raises FileAccessError as well and
\* leaves the temporary file.
copy_cleanup(tmp, rm_fails) ==
    IF tmp.exists /\ ~rm_fails
    THEN [tmp |-> Missing, err |-> FileAccessError]
    ELSE [tmp |-> tmp, err |-> FileAccessError]

CopyInit(dest) ==
    /\ cp_pc = "idle"
    /\ cp_src = "default"
    /\ cp_fault = "none"
    /\ cp_rm_fails = FALSE
    /\ cp_dest = dest
    /\ cp_prev = dest
    /\ cp_tmp = Missing
    /\ cp_err = "none"

\* _atomic_copy_file(src, dest) is called.
CopyCall ==
    /\ cp_pc \in {"idle", "returned", "raised"}
    /\ \E src \in Sources, fault \in CopyFaults, rm_fails \in BOOLEAN :
        /\ cp_src' = src
        /\ cp_fault' = fault
        /\ cp_rm_fails' = rm_fails
    /\ cp_prev' = cp_dest
    /\ cp_tmp' = Missing
    /\ cp_err' = "none"
    /\ cp_pc' = "called"
    /\ UNCHANGED cp_dest
    /\ UNCHANGED <<docvars, fsvars, thvars>>

\* NamedTemporaryFile("wb", dir=dest.parent, delete=False): an empty file.
CopyCreateTemp ==
    /\ cp_pc = "called"
    /\ cp_tmp' = Holding(<<>>)
    /\ cp_pc' = "created"
    /\ UNCHANGED <<cp_src, cp_fault, cp_rm_fails, cp_dest, cp_prev, cp_err>>
    /\ UNCHANGED <<docvars, fsvars, thvars>>

\* shutil.copyfile(src, temp_name): the whole source, or some of its first
\* blocks when it fails.
CopyFile ==
    /\ cp_pc = "created"
    /\ IF cp_fault = "copyfile"
       THEN /\ \E k \in 0..(NBlocks - 1) :
                  cp_tmp' = Holding(SubSeq(FullText(cp_src), 1, k))
            /\ cp_pc' = "failed"
       ELSE /\ cp_tmp' = Holding(FullText(cp_src))
            /\ cp_pc' = "copied"
    /\ UNCHANGED <<cp_src, cp_fault, cp_rm_fails, cp_dest, cp_prev, cp_err>>
    /\ UNCHANGED <<docvars, fsvars, thvars>>

\* os.replace(temp_name, dest).
CopyReplace ==
    /\ cp_pc = "copied"
    /\ IF cp_fault = "replace"
       THEN /\ cp_pc' = "failed"
            /\ UNCHANGED <<cp_dest, cp_tmp>>
       ELSE /\ cp_dest' = cp_tmp
            /\ cp_tmp' = Missing
            /\ cp_pc' = "returned"
    /\ UNCHANGED <<cp_src, cp_fault, cp_rm_fails, cp_prev, cp_err>>
    /\ UNCHANGED <<docvars, fsvars, thvars>>

\* The except block runs and the call raises.
CopyCleanup ==
    /\ cp_pc = "failed"
    /\ LET c == copy_cleanup(cp_tmp, cp_rm_fails)
       IN  /\ cp_tmp' = c.tmp
           /\ cp_err' = c.err
    /\ cp_pc' = "raised"
    /\ UNCHANGED <<cp_src, cp_fault, cp_rm_fails, cp_dest, cp_prev>>
    /\ UNCHANGED <<docvars, fsvars, thvars>>

----------------------------------------------------------------------------
(* Specifications *)

\* No JSONFile constructed yet.
DocInit ==
    /\ alive = FALSE
    /\ doc = NoDoc
    /\ json = Unset
    /\ ctor = Built(FALSE, None)
    /\ external = FALSE
    /\ caller_default = CallerDefault(None, TRUE)
    /\ last = Call("none", NoArgs, Outcome(NoFile, Unset, "none", 0, 0), NoFile, Unset)

Init ==
    /\ file \in {NoFile, InvalidFile, ExistingFile}
    /\ default_file \in {NoFile, InvalidFile, TemplateFile}
    /\ DocInit
    /\ FSInit(OldInode)
    /\ ThreadsInit
    /\ CopyInit(Missing)

\* The target exists or not when the writers and the reader start.
InitFS ==
    /\ file = NoFile
    /\ default_file = NoFile
    /\ DocInit
    /\ \E target \in {OldInode, Absent} : FSInit(target)
    /\ ThreadsInit
    /\ CopyInit(Missing)

NextFS ==
    \/ \E w \in Writers : WriterCreateTemp(w)
    \/ \E w \in Writers : WriterWrite(w)
    \/ \E w \in Writers : WriterReplace(w)
    \/ ReaderOpen
    \/ ReaderRead
    \/ ReaderClose

SpecFS == InitFS /\ [][NextFS]_vars

InitThreads ==
    /\ file = NoFile
    /\ default_file = NoFile
    /\ DocInit
    /\ FSInit(OldInode)
    /\ ThreadsInit
    /\ CopyInit(Missing)

NextThreads ==
    \/ \E t \in Threads : ThreadCall(t)
    \/ \E t \in Threads : ThreadAcquire(t)
    \/ \E t \in Threads : ThreadBody(t)
    \/ \E t \in Threads : ThreadAcquireNested(t)
    \/ \E t \in Threads : ThreadReleaseNested(t)
    \/ \E t \in Threads : ThreadBodyAfter(t)
    \/ \E t \in Threads : ThreadRaise(t)
    \/ \E t \in Threads : ThreadRelease(t)

\* The destination is absent or holds some earlier content when the first
\* copy is made.
InitCopy ==
    /\ file = NoFile
    /\ default_file = NoFile
    /\ DocInit
    /\ FSInit(OldInode)
    /\ ThreadsInit
    /\ \E dest \in {Missing, Holding(FullText(OldText))} : CopyInit(dest)

NextCopy == CopyCall \/ CopyCreateTemp \/ CopyFile \/ CopyReplace \/ CopyCleanup

SpecCopy == InitCopy /\ [][NextCopy]_vars

\* A thread that can take a step is eventually scheduled.
SpecThreads ==
    InitThreads /\ [][NextThreads]_vars /\ \A t \in Threads : WF_vars(ThreadStep(t))

\* jf = JSONFile(path, default_data, default_path, settings=, auto_save=,
\*               strict=, load_file=); a raise leaves the caller without object.
Construct ==
    /\ UNCHANGED <<fsvars, thvars, cpvars>>
    /\ ~alive
    /\ \E default_data \in DefaultPool, default_path \in BOOLEAN,
          settings \in InstanceSettings, auto_save \in BOOLEAN,
          strict \in BOOLEAN, load_file \in BOOLEAN, io \in Faults :
        LET out == init(default_data, default_path, settings, auto_save,
                        strict, load_file, file, default_file, io)
        IN  /\ file' = out.file
            /\ json' = out.json
            /\ alive' = (out.err = "none")
            /\ doc' = IF out.err = "none"
                      THEN init_fields(default_data, default_path, settings, auto_save)
                      ELSE NoDoc
            /\ ctor' = IF out.err = "none"
                       THEN Built(load_file,
                                  init_fields(default_data, default_path,
                                              settings, auto_save).default_data)
                       ELSE Built(FALSE, None)
            /\ external' = FALSE
            /\ caller_default' = IF out.err = "none"
                                 THEN CallerDefault(default_data, default_path)
                                 ELSE CallerDefault(None, TRUE)
            /\ last' = Call("init",
                            WithFault(
                              Args(DefaultKind(default_data, default_path, default_file),
                                   strict, load_file, InitRecover(strict)), io),
                            out, file, json)
            /\ UNCHANGED default_file

\* jf.reload(recover=...)
Reload ==
    /\ UNCHANGED <<fsvars, thvars, cpvars>>
    /\ alive
    /\ \E recover \in BOOLEAN, io \in Faults :
        LET out == reload(doc, file, default_file, json, recover, io)
        IN  /\ file' = out.file
            /\ json' = out.json
            /\ last' = After(last,
                            Call("reload",
                                 WithFault(
                                   Args(DefaultKind(doc.default_data, doc.default_path,
                                                    default_file),
                                        FALSE, FALSE, recover), io),
                                 out, file, json))
            /\ UNCHANGED <<default_file, alive, doc, ctor, external, caller_default>>

\* jf.save(settings)
Save ==
    /\ UNCHANGED <<fsvars, thvars, cpvars>>
    /\ alive
    /\ \E settings \in SaveSettings(doc), io \in SaveFaults :
        LET out == save(doc, file, json, settings, io)
        IN  /\ file' = out.file
            /\ json' = out.json
            /\ last' = [Call("save", WithFault(NoArgs, io), out, file, json)
                            EXCEPT !.as_given =
                                (out.file = FileOf(dumps(json, settings),
                                                   settings.encoding))]
            /\ UNCHANGED <<default_file, alive, doc, ctor, external, caller_default>>

\* jf.json = v: the caller edits the value in memory.
SetJson ==
    /\ UNCHANGED <<fsvars, thvars, cpvars>>
    /\ alive
    /\ \E v \in EditPool :
        /\ json' = v
        /\ last' = Call("set", NoArgs, Outcome(file, v, "none", 0, 0), file, v)
        /\ UNCHANGED <<file, default_file, alive, doc, ctor, external, caller_default>>

\* path.unlink() by the caller or another process.
Unlink ==
    /\ UNCHANGED <<fsvars, thvars, cpvars>>
    /\ file.exists
    /\ file' = NoFile
    /\ external' = TRUE
    /\ last' = Call("unlink", NoArgs, Outcome(NoFile, json, "none", 0, 0), NoFile, json)
    /\ UNCHANGED <<default_file, alive, doc, json, ctor, caller_default>>

\* Another writer leaves text that is not JSON in the file.
Corrupt ==
    /\ UNCHANGED <<fsvars, thvars, cpvars>>
    /\ file' = InvalidFile
    /\ external' = TRUE
    /\ last' = Call("corrupt", NoArgs, Outcome(InvalidFile, json, "none", 0, 0),
                     InvalidFile, json)
    /\ UNCHANGED <<default_file, alive, doc, json, ctor, caller_default>>

\* The end of `with jf: ...`, the body having raised exc_type or returned.
ExitScope ==
    /\ UNCHANGED <<fsvars, thvars, cpvars>>
    /\ alive
    /\ \E exc_type \in BodyOutcomes, io \in SaveFaults :
        LET out == exit(doc, file, json, exc_type, io)
            seen == [out EXCEPT !.err = with_raises(exc_type, out)]
        IN  /\ file' = out.file
            /\ json' = out.json
            /\ last' = [Call("exit", WithFault(NoArgs, io), seen, file, json)
                            EXCEPT !.saves = out.saves, !.exc = exc_type]
            /\ UNCHANGED <<default_file, alive, doc, ctor, external, caller_default>>

\* The caller changes, in place, the dict it passed as default_data.
MutateDefault ==
    /\ UNCHANGED <<fsvars, thvars, cpvars>>
    /\ alive
    /\ ~doc.default_path
    /\ caller_default.value.kind = "object"
    /\ caller_default' = [caller_default EXCEPT !.value = Mutated(@)]
    /\ doc' = IF caller_default.held
              THEN [doc EXCEPT !.default_data = Mutated(caller_default.value)]
              ELSE doc
    /\ last' = Call("mutate", NoArgs, Outcome(file, json, "none", 0, 0), file, json)
    /\ UNCHANGED <<file, default_file, alive, json, ctor, external>>

Next ==
    Construct \/ Reload \/ Save \/ SetJson \/ Unlink \/ Corrupt \/ MutateDefault
        \/ ExitScope

Spec == Init /\ [][Next]_vars

----------------------------------------------------------------------------
(* Properties *)

\* The value the default material stands for, when it is usable.
DefaultValue ==
    IF doc.default_path THEN json_load(default_file.text) ELSE doc.default_data

\* The file a materialization of a usable default leaves at the target.
DefaultContent ==
    IF doc.default_path
    THEN default_file
    ELSE FileOf(dumps(doc.default_data, doc.settings), doc.settings.encoding)

UsableDefault(kind) == kind \in {"data", "path_valid"}

UnusableDefault(kind) == kind \in {"data_unserializable", "path_missing", "path_invalid"}

\* C1: once a construction with load_file has returned a JSONFile, the target
\* file exists and holds valid JSON after the construction and after every
\* later reload, save or edit of the value made through it, as long as
\* nothing else has changed the file.
C1_FileStaysValidJSON ==
    (alive /\ ctor.load_file /\ ~external) => ValidFile(file)

\* A construction over a file that held invalid JSON returned a JSONFile.
C1_Witness ==
    /\ alive /\ ctor.load_file /\ ~external
    /\ last.op = "init" /\ last.pre = "invalid"

\* C2: when reload or save returns normally, the value parsed from the file
\* equals self.json.
C2_FileMatchesValue ==
    (alive /\ last.op \in {"reload", "save"} /\ last.err = "none")
        => /\ ValidFile(file)
           /\ PyEq(json_load(file.text), json)

\* reload returned through the final fallback to the empty object.
C2_Witness ==
    /\ alive /\ last.op = "reload" /\ last.err = "none"
    /\ last.parses = 2 /\ last.default = "path_invalid"
    /\ json = Dict(<<>>)

\* C3: with the target missing and a usable default, reload (either recover
\* flag) and a loading construction do not raise, leave the file in place and
\* load the default; with a valid default file the target is a copy of it.
\* (No filesystem operation fails during the call.)
C3_MissingFileGetsDefault ==
    (/\ last.op \in {"reload", "init"}
     /\ last.io = "none"
     /\ last.op = "init" => last.load_file
     /\ last.pre = "missing"
     /\ UsableDefault(last.default))
        => /\ last.err = "none"
           /\ alive
           /\ file = DefaultContent
           /\ PyEq(json, DefaultValue)
           /\ PyEq(json_load(file.text), DefaultValue)

\* reload(recover=False) wrote a two-member default to the missing target.
C3_Witness ==
    /\ last.op = "reload" /\ ~last.recover /\ last.pre = "missing"
    /\ last.default = "data" /\ last.err = "none"
    /\ Len(json.items) = 2

\* C4: with the target holding invalid JSON and a usable default,
\* reload(recover=True) does not raise, rewrites the file with the default
\* content and loads the default.  (No filesystem operation fails.)
C4_CorruptFileRecovers ==
    (/\ last.op = "reload" /\ last.recover
     /\ last.io = "none"
     /\ last.pre = "invalid"
     /\ UsableDefault(last.default))
        => /\ last.err = "none"
           /\ file = DefaultContent
           /\ PyEq(json, DefaultValue)

\* reload(recover=True) replaced an invalid target by a non-empty default.
C4_Witness ==
    /\ last.op = "reload" /\ last.recover /\ last.pre = "invalid"
    /\ last.default = "data" /\ last.err = "none"
    /\ Len(json.items) = 2 /\ ValidFile(file)

\* C5: with the target holding invalid JSON, reload(recover=False) raises
\* DefaultNotJSONSerializableError when a default path is configured and
\* JSONDeserializationError otherwise; the file and self.json stay as they
\* were and the default is not materialized.  (No filesystem operation
\* fails.)
C5_CorruptFileNoRecoverRaises ==
    (last.op = "reload" /\ ~last.recover /\ last.pre = "invalid" /\ last.io = "none")
        => /\ last.err = IF doc.default_path THEN DefaultNotJSONSerializableError
                                             ELSE JSONDeserializationError
           /\ last.file_kept
           /\ last.json_kept
           /\ last.reinst = 0
           /\ FileKind(file) = "invalid"

\* reload(recover=False) raised over an invalid target with a default path.
C5_Witness ==
    /\ last.op = "reload" /\ ~last.recover /\ last.pre = "invalid"
    /\ doc.default_path /\ last.err = DefaultNotJSONSerializableError

\* C6: a loading construction over a target holding invalid JSON, with a
\* usable default: strict=True raises a parse or default-invalid fault and
\* leaves the file as it was; strict=False repairs the file from the default
\* and returns a JSONFile.  (No filesystem operation fails.)
C6_StrictSurfacesNonStrictRepairs ==
    (/\ last.op = "init" /\ last.load_file
     /\ last.io = "none"
     /\ last.pre = "invalid"
     /\ UsableDefault(last.default))
        => IF last.strict
           THEN /\ last.err \in {JSONDeserializationError,
                                 DefaultNotJSONSerializableError}
                /\ last.file_kept
                /\ ~alive
           ELSE /\ last.err = "none"
                /\ alive
                /\ file = DefaultContent

\* C7: a strict construction with unusable default material raises
\* DefaultNotJSONSerializableError, whatever load_file is, without creating
\* or changing the target file and without returning a JSONFile.
C7_StrictRejectsUnusableDefault ==
    (last.op = "init" /\ last.strict /\ UnusableDefault(last.default))
        => /\ last.err = DefaultNotJSONSerializableError
           /\ ~alive
           /\ last.file_kept
           /\ last.parses = 0
           /\ last.reinst = 0

\* A strict loading construction was refused for an invalid default file
\* while the target was missing.
C7_Witness ==
    /\ last.op = "init" /\ last.strict /\ last.load_file
    /\ last.default = "path_invalid" /\ last.pre = "missing"
    /\ last.err = DefaultNotJSONSerializableError /\ ~file.exists

\* C8: a construction with strict=False and a default value that is not
\* JSON-serializable returns a JSONFile, whatever the target file holds and
\* whatever load_file is.  (No filesystem operation fails.)
C8_NonStrictAcceptsUnserializableDefault ==
    (/\ last.op = "init" /\ ~last.strict /\ last.default = "data_unserializable"
     /\ last.io = "none")
        => /\ last.err = "none"
           /\ alive

\* C9: reload(recover=True) parses the file at most twice and materializes
\* the default at most twice (once for a missing file, once after a parse
\* fault); with the target missing or invalid and the default unusable it
\* returns with self.json == {} and the file holding "{}" when no filesystem
\* operation fails.
C9_RecoveryIsBounded ==
    (last.op = "reload" /\ last.recover)
        => /\ last.parses <= 2
           /\ last.reinst <= 2
           /\ (last.io = "none")
                => last.reinst <= (IF last.pre = "missing" THEN 1 ELSE 0)
                                   + (IF last.parses = 2 THEN 1 ELSE 0)
           /\ (/\ last.pre \in {"missing", "invalid"}
               /\ UnusableDefault(last.default)
               /\ last.io = "none")
                => /\ last.err = "none"
                   /\ json = Dict(<<>>)
                   /\ file.exists
                   /\ file.text = EmptyObjectText

\* reload(recover=True) found the target missing, copied an invalid default
\* file twice, parsed twice and fell back to {}.
C9_Witness ==
    /\ last.op = "reload" /\ last.recover /\ last.pre = "missing"
    /\ last.default = "path_invalid"
    /\ last.parses = 2 /\ last.reinst = 2
    /\ json = Dict(<<>>) /\ file.text = EmptyObjectText

C11_ReloadLeavesFileConsistent ==
    (last.op = "reload") => (last.file_kept \/ ValidFile(file))

\* C12: for every serializable value and every settings, self.json = v,
\* save(), then reload(recover either way) leaves self.json == v; the reload
\* parses the file once and materializes no default.  (No filesystem
\* operation fails.)
C12_SaveReloadRoundTrip ==
    (last.op = "reload" /\ last.after_save /\ last.io = "none")
        => /\ last.err = "none"
           /\ last.json_eq
           /\ last.parses = 1
           /\ last.reinst = 0

\* A two-member dict with a non-ASCII string, saved with ensure_ascii (the
\* file holds the escape) and sort_keys (members reordered), was reloaded.
C12_Witness ==
    /\ last.op = "reload" /\ last.after_save /\ last.err = "none"
    /\ PyEq(json, Dict(<<<<2, 97>>, <<1, 233>>>>))
    /\ ~last.json_kept
    /\ \E i \in 1..Len(file.text.members) : file.text.members[i][2].escaped

\* C13: the default data of a JSONFile stays the value it had when __init__
\* returned, whatever the caller does to the object it passed and to
\* self.json; a reload that finds the file missing writes and loads that
\* value.  (Default given as default_data and serializable; no filesystem
\* operation fails.)
C13_DefaultIsCapturedAtConstruction ==
    /\ alive => doc.default_data = ctor.given
    /\ (/\ last.op = "reload" /\ last.pre = "missing" /\ last.io = "none"
        /\ ~doc.default_path /\ CanDump(ctor.given))
        => /\ last.err = "none"
           /\ PyEq(json, ctor.given)
           /\ file = FileOf(dumps(ctor.given, doc.settings), doc.settings.encoding)

\* The caller emptied the dict it had passed, the file was removed, and a
\* reload replaced a different self.json by the two-member default.
C13_Witness ==
    /\ last.op = "reload" /\ last.pre = "missing" /\ last.err = "none"
    /\ ~doc.default_path /\ Len(ctor.given.items) = MaxItems
    /\ caller_default.value = Dict(<<>>)
    /\ external
    /\ ~last.json_eq
    /\ PyEq(json, ctor.given)

\* C14: when _atomic_write_text fails, while writing the temporary file or
\* in os.replace after it, the call that made the write (save, or a reload
\* or construction materializing the default) raises FileAccessError and
\* the target is as the write found it: unchanged by a save, and in a
\* reload unchanged or, when the failed write was the final "{}" fallback,
\* still the copy of the default file made before it.
C14_FailedWriteKeepsTarget ==
    (last.io \in {"write", "replace"})
        => /\ last.err = FileAccessError
           /\ last.json_kept
           /\ \/ last.file_kept
              \/ /\ last.op \in {"reload", "init"}
                 /\ last.default = "path_invalid"
                 /\ last.parses = 2
                 /\ file = default_file

\* os.replace failed in a save of a value that differs from the valid
\* content of the file.
C14_Witness ==
    /\ last.op = "save" /\ last.io = "replace" /\ last.err = FileAccessError
    /\ ValidFile(file)
    /\ CanDump(json)
    /\ ~PyEq(json, json_load(file.text))

\* C17: leaving a with block calls save() once when no exception is in
\* flight and auto_save is set, and not at all otherwise; with an exception
\* in flight the file and self.json are untouched and the caller gets that
\* same exception; with auto_save off the file is not written; a save made
\* at exit that returns leaves the file holding self.json.
C17_ExitSavesOnceOnNormalExit ==
    (last.op = "exit")
        => /\ last.saves = (IF last.exc = "none" /\ doc.auto_save THEN 1 ELSE 0)
           /\ (last.exc # "none")
                => (last.err = last.exc /\ last.file_kept /\ last.json_kept)
           /\ ~doc.auto_save => (last.file_kept /\ last.err = last.exc)
           /\ (last.saves = 1 /\ last.err = "none")
                => file = FileOf(dumps(json, doc.settings), doc.settings.encoding)

\* A with block ended normally on an auto-saving JSONFile and the save
\* changed the file.
C17_Witness ==
    /\ last.op = "exit" /\ last.exc = "none" /\ doc.auto_save
    /\ last.saves = 1 /\ last.err = "none"
    /\ ~last.file_kept

\* C18: a reload in which a filesystem operation fails (the first read, a
\* write or copy of the default materialization, the retry read) raises
\* FileAccessError, with recover set or not, and leaves self.json alone.
C18_AccessFaultRaisesFileAccessError ==
    (last.op = "reload" /\ last.io # "none")
        => /\ last.err = FileAccessError
           /\ last.json_kept

\* C19: a JSONFile built with both default_data and default_path
\* materializes from the path only: the target becomes a copy of the
\* default file, or "{}" when recovery is allowed and the default file is
\* absent or does not parse, and never the dump of the default_data given.
\* (No filesystem operation fails.)
C19_DefaultPathOverridesDefaultData ==
    (/\ last.op \in {"reload", "init"}
     /\ last.default \in {"path_missing", "path_valid", "path_invalid"}
     /\ last.reinst > 0
     /\ last.io = "none")
        => /\ alive => (doc.default_path /\ doc.default_data = None)
           /\ \/ last.default # "path_missing" /\ file = default_file
              \/ /\ last.default # "path_valid" /\ last.recover
                 /\ last.err = "none"
                 /\ file = FileOf(EmptyObjectText, doc.settings.encoding)
                 /\ json = Dict(<<>>)
              \/ /\ last.default = "path_missing" /\ ~last.recover
                 /\ last.err = DefaultNotJSONSerializableError
                 /\ last.file_kept
           /\ (alive /\ Len(caller_default.value.items) > 0)
                => file # FileOf(dumps(caller_default.value, doc.settings),
                                 doc.settings.encoding)

\* A JSONFile built with a two-member default_data and a default_path found
\* its file missing on reload and copied the default file.
C19_Witness ==
    /\ last.op = "reload" /\ last.pre = "missing" /\ last.default = "path_valid"
    /\ last.reinst = 1 /\ last.err = "none"
    /\ Len(caller_default.value.items) = 2
    /\ file = default_file
    /\ PyEq(json, json_load(default_file.text))

\* C20: when no filesystem operation fails, reload(recover=True) returns
\* with self.json set: the parsed target when the target was valid JSON,
\* else the usable default (default_data, or the content of a default file
\* that parses), else {}.
C20_RecoverAlwaysLoads ==
    (last.op = "reload" /\ last.recover /\ last.io = "none")
        => /\ last.err = "none"
           /\ ValidFile(file)
           /\ json = json_load(file.text)
           /\ IF last.pre = "valid"
              THEN last.file_kept /\ last.reinst = 0
              ELSE IF UsableDefault(last.default)
                   THEN PyEq(json, DefaultValue) /\ file = DefaultContent
                   ELSE json = Dict(<<>>) /\ file.text = EmptyObjectText

\* reload(recover=True) over invalid JSON, the default file being invalid
\* too, ended with {}.
C20_Witness ==
    /\ last.op = "reload" /\ last.recover /\ last.pre = "invalid"
    /\ last.default = "path_invalid" /\ last.err = "none"
    /\ last.parses = 2
    /\ json = Dict(<<>>) /\ file.text = EmptyObjectText

\* C15: with writers and a reader that share no lock, every read of the
\* target that reaches end of file has read one complete text (the content
\* from before the writes or the whole text of one writer), the path never
\* names a partly written file, and once both writers are done the target
\* holds exactly the text of one of them.
C15_ReadersSeeCompleteContent ==
    /\ (r_pc = "eof") => \E t \in Texts : r_buf = FullText(t)
    /\ (fs_target # Absent) => \E t \in Texts : fs_inode[fs_target] = FullText(t)
    /\ (\A w \in Writers : w_pc[w] = "done")
        => \E w \in Writers : fs_inode[fs_target] = FullText(w)

\* The reader opened the original file, a writer replaced the target while
\* the other was half way through its temporary file, and the reader still
\* read the whole original content.
C15_Witness ==
    /\ r_pc = "eof" /\ r_buf = FullText(OldText)
    /\ fs_target = "w1" /\ fs_inode[fs_target] = FullText("w1")
    /\ w_pc["w2"] = "writing" /\ w_n["w2"] = 1

\* C16: at most one thread at a time is inside the locked body of reload,
\* __reinstantiate_default or save; a thread waiting for the lock gets it,
\* also after the owner raised; the acquisition reload makes again inside
\* __reinstantiate_default always goes through.
C16_LockSerializesAndIsReleased ==
    /\ [](\A t, u \in Threads : (t_pc[t] \in InBody /\ t_pc[u] \in InBody) => t = u)
    /\ [](\A t \in Threads : t_pc[t] \in InBody <=> lock.owner = t)
    /\ \A t \in Threads : (t_pc[t] = "enter") ~> (t_pc[t] = "body")
    /\ \A t \in Threads : (t_pc[t] = "enter_nested") ~> (t_pc[t] = "nested_body")

\* One thread holds the lock twice, inside __reinstantiate_default, while
\* the other waits to enter.
C16_Witness ==
    /\ t_pc["t1"] = "nested_body" /\ lock = [owner |-> "t1", count |-> 2]
    /\ t_pc["t2"] = "enter"

\* C21: a save(settings) that returns leaves the file written under the
\* settings passed, all four of them (indent, sort_keys, ensure_ascii and
\* encoding); save() without settings uses the instance settings.
C21_SaveUsesGivenSettings ==
    (last.op = "save" /\ last.err = "none") => last.as_given

\* C22: save, called directly or by the exit of a with block, never changes
\* self.json, and when it returns the file holds the serialization of
\* whatever self.json is; on a JSONFile built with load_file=False whose
\* value is still None, that is JSON null, whatever the file held.
C22_SaveWritesCurrentValue ==
    (last.op \in {"save", "exit"})
        => /\ last.json_kept
           /\ (last.err = "none" /\ (last.op = "exit" => last.saves = 1))
                => /\ ValidFile(file)
                   /\ PyEq(json_load(file.text), json)
                   /\ (~ctor.load_file /\ json = None)
                        => file.text = dumps(None, doc.settings)

\* A JSONFile built with load_file=False over a valid file was saved at
\* once: the file now holds null.
C22_Witness ==
    /\ last.op = "save" /\ last.err = "none"
    /\ ~ctor.load_file /\ ~external
    /\ json = None
    /\ last.pre = "valid" /\ ~last.file_kept
    /\ file.text.kind = "null"

\* C24: when the target exists, can be read and parses, reload (recover set
\* or not, whatever the default material) leaves the file exactly as it
\* was, does not materialize the default, parses once, raises nothing and
\* sets self.json to the parsed content.
C24_ReloadOfHealthyFileOnlyReads ==
    (last.op = "reload" /\ last.pre = "valid" /\ last.io = "none")
        => /\ last.err = "none"
           /\ last.file_kept
           /\ last.reinst = 0
           /\ last.parses = 1
           /\ json = json_load(file.text)

\* reload(recover=False) on a JSONFile whose default file does not parse
\* replaced a different self.json by the content of the valid target.
C24_Witness ==
    /\ last.op = "reload" /\ ~last.recover /\ last.pre = "valid"
    /\ last.default = "path_invalid"
    /\ last.err = "none" /\ last.file_kept
    /\ ~last.json_eq
    /\ json = json_load(file.text)

\* C23: when shutil.copyfile or os.replace fails in _atomic_copy_file, the
\* call raises FileAccessError, the destination is as the call found it
\* (absent included), and the temporary file is gone unless its removal
\* failed, in which case the error is FileAccessError all the same; the
\* destination never holds a partial copy.
C23_FailedCopyKeepsDestination ==
    /\ (cp_pc \in {"failed", "raised"}) => cp_dest = cp_prev
    /\ (cp_pc = "raised")
        => /\ cp_err = FileAccessError
           /\ ~cp_rm_fails => ~cp_tmp.exists
    /\ cp_dest.exists => \E t \in Sources \cup {OldText} : cp_dest.blocks = FullText(t)

\* os.replace failed in a copy over a destination holding another text;
\* the fully written temporary file was removed.
C23_Witness ==
    /\ cp_pc = "raised" /\ cp_fault = "replace" /\ ~cp_rm_fails
    /\ cp_err = FileAccessError
    /\ cp_dest.exists /\ cp_dest.blocks # FullText(cp_src)
    /\ ~cp_tmp.exists

============================================================================
